---- MODULE Spec2Model ----
(***************************************************************************)
(* Verification model of the two scripts of the repository:                *)
(*   src/ner/data/preprocess.py  - token/label alignment preprocessor      *)
(*   src/squad/run_squad.py      - SQuAD fine-tuning / evaluation driver   *)
(* Each script is a state machine of its own; the variables of the other   *)
(* script stay frozen while one of them runs.                              *)
(***************************************************************************)
EXTENDS Integers, Sequences, FiniteSets, TLC

\* ------------------------------------------------------------------ bounds
MaxLines == 4        \* longest input file of preprocess.py, in lines
MaxMaxLen == 3       \* largest max_len given on the command line

\* =========================================================================
\*                          src/ner/data/preprocess.py
\* =========================================================================
VARIABLES
  max_len,              \* int(sys.argv[3])
  subword_len_counter,  \* the running subword budget of the current example
  consumed,             \* the lines of the dataset file read so far
  out,                  \* the lines printed to stdout so far
  ppc                   \* "reading" | "eof"

pvars == <<max_len, subword_len_counter, consumed, out, ppc>>

\* A line of text is a sequence of chunks: a run of whitespace (SP) or a word.
SP == " "

\* The vocabulary of the model: the name of a word tells its subword count.
Tokens == {"ctl", "w1", "w2", "w3"}

\* tokenizer.tokenize(token): the number of subwords of a token; control
\* characters such as \x96 tokenize to nothing.
Tokenize(token) ==
  CASE token = "ctl" -> 0
    [] token = "w1"  -> 1
    [] token = "w2"  -> 2
    [] token = "w3"  -> 3
    [] OTHER         -> 1

\* The lines a dataset file is made of (without the newline).
Lines ==
  { <<>>,                               \* empty line
    <<SP>>,                             \* whitespace only
    <<"w1", SP, "O">>,
    <<"w2", SP, "B">>,
    <<"w3", SP, "O", SP>>,              \* trailing whitespace
    <<"ctl", SP, "O">>,                 \* token without subwords
    <<"w1">>,                           \* a single field
    <<SP, "w2", SP, "x", SP, "B">> }    \* leading whitespace, three fields

\* str.rstrip(): drop the trailing whitespace.
RECURSIVE Rstrip(_)
Rstrip(line) ==
  IF line = <<>> THEN <<>>
  ELSE IF line[Len(line)] = SP THEN Rstrip(SubSeq(line, 1, Len(line) - 1))
  ELSE line

\* str.split(): the words of the line, whitespace runs dropped.
IsWord(c) == c # SP
Split(line) == SelectSeq(line, IsWord)

\* print(token, label): the two arguments separated by one space.
PrintPair(token, label) == <<token, SP, label>>

\* (mutation) the end of an example keeps the consumed budget.
EndOfExample_KeepsCounter(line, counter, o) ==
  [out |-> Append(o, line), counter |-> counter]

\* lines 17-20: end of example.
EndOfExample(line, counter, o) ==
  [out |-> Append(o, line), counter |-> 0]

\* (mutation) the token that opens the new example is not printed.
SplitExample_DropsToken(token, label, cur, counter, o) ==
  [out |-> Append(o, <<>>), counter |-> 0]

\* lines 31-35: the token does not fit into the current example.
SplitExample(token, label, cur, counter, o) ==
  [out |-> Append(Append(o, <<>>), PrintPair(token, label)), counter |-> 0]

\* lines 37-39: the token fits.
KeepExample(token, label, cur, counter, o) ==
  [out |-> Append(o, PrintPair(token, label)), counter |-> counter + cur]

\* lines 15-39: the body of the loop for one line of the file.
LoopBody(rawline, counter, o, ml) ==
  LET line == Rstrip(rawline) IN
  IF line = <<>> THEN EndOfExample(line, counter, o)
  ELSE
    LET fields == Split(line)
        token == fields[1]
        label == fields[Len(fields)]
        current_subwords_len == Tokenize(token)
    IN IF current_subwords_len = 0 THEN [out |-> o, counter |-> counter]
       ELSE IF (counter + current_subwords_len) > ml
            THEN SplitExample(token, label, current_subwords_len, counter, o)
            ELSE KeepExample(token, label, current_subwords_len, counter, o)


\* =========================================================================
\*                            src/squad/run_squad.py
\* =========================================================================
\* The model follows one process of the script (its local_rank is an input)
\* on a host with at most one GPU, without fp16.  The file system outlives
\* the process: the script can be started again on what a first run left.

\* ------------------------------------------------------------------ bounds
MaxBatches == 4      \* largest len(train_dataloader)
MaxAccum == 2        \* largest gradient_accumulation_steps
MaxEpochs == 2       \* largest num_train_epochs on the command line
MaxMaxSteps == 3     \* largest max_steps on the command line
MaxSaveSteps == 2    \* largest save_steps on the command line

VARIABLES
  argv,                 \* the command line, as parsed by get_parser()
  args,                 \* parser.parse_args(); the script rewrites parts
  len_train_dataloader, \* len(train_dataloader)
  lang2id,              \* the model's config has a lang2id attribute
  fs_output_dir,        \* what args.output_dir is on disk
  ckpt,                 \* the checkpoint-N directories under output_dir
  invocation,           \* 1: first run of the script, 2: run started again
  pc,                   \* position of main()
  raised,               \* the exception that ended main(), or "none"
  model_loaded,         \* from_pretrained() was called in this run
  barrier_entered,      \* torch.distributed.barrier() was called in this run
  fs_written,           \* a file or directory was created or written
  t_total,              \* 'Total optimization steps', given to the scheduler
  global_step,
  epochs_trained,
  steps_trained_in_current_epoch,
  epoch,                \* position of train_iterator
  step,                 \* position of enumerate(epoch_iterator)
  updates,              \* number of optimizer.step()/scheduler.step() calls
  batches,              \* number of batches given to the model by train()
  skipped,              \* number of batches train() skipped on resuming
  train_inputs,         \* keywords of the last model(**inputs) in train()
  eval_inputs,          \* keywords of the last model(**inputs) in evaluate()
  resumed_from          \* the checkpoint the second run was started on

svars == <<argv, args, len_train_dataloader, lang2id, fs_output_dir, ckpt,
           invocation, pc, raised, model_loaded, barrier_entered, fs_written,
           t_total, global_step, epochs_trained,
           steps_trained_in_current_epoch, epoch, step, updates, batches,
           skipped, train_inputs, eval_inputs, resumed_from>>

vars == <<pvars, svars>>

\* ------------------------------------------------------- paths and numbers
\* A path is a sequence of chunks: "/", "-", a decimal digit, or a word
\* without any of these.
Digits == <<"0", "1", "2", "3", "4", "5", "6", "7", "8", "9">>
IsDigit(c) == \E d \in 1..10 : Digits[d] = c
DigitValue(c) == (CHOOSE d \in 1..10 : Digits[d] = c) - 1

\* "{}".format(n) for n >= 0
RECURSIVE Format(_)
Format(n) ==
  IF n < 10 THEN <<Digits[n + 1]>>
  ELSE Format(n \div 10) \o <<Digits[(n % 10) + 1]>>

\* the argument is accepted by int(): a non-empty run of decimal digits
IsInt(str) == str # <<>> /\ \A i \in 1..Len(str) : IsDigit(str[i])

\* int(str) of a run of decimal digits
RECURSIVE ParseInt(_)
ParseInt(str) ==
  IF str = <<>> THEN 0
  ELSE 10 * ParseInt(SubSeq(str, 1, Len(str) - 1))
         + DigitValue(str[Len(str)])

\* str.split(sep)[-1]: what follows the last separator
RECURSIVE AfterLast(_, _)
AfterLast(str, sep) ==
  IF str = <<>> THEN <<>>
  ELSE IF str[Len(str)] = sep THEN <<>>
  ELSE Append(AfterLast(SubSeq(str, 1, Len(str) - 1), sep), str[Len(str)])

\* str.split(sep)[0]: what precedes the first separator
RECURSIVE BeforeFirst(_, _)
BeforeFirst(str, sep) ==
  IF str = <<>> THEN <<>>
  ELSE IF Head(str) = sep THEN <<>>
  ELSE <<Head(str)>> \o BeforeFirst(Tail(str), sep)

\* line 162
CheckpointSuffix(model_name_or_path) ==
  BeforeFirst(AfterLast(model_name_or_path, "-"), "/")

OutputDir == <<"out">>

\* line 276: os.path.join(args.output_dir, "checkpoint-{}".format(global_step))
CheckpointDir(output_dir, gs) ==
  output_dir \o <<"/", "checkpoint", "-">> \o Format(gs)

HubModel == <<"bert", "-", "base", "-", "uncased">>   \* not a local path
LocalModel == <<"models", "/", "bert">>               \* a local directory

\* os.path.exists(args.model_name_or_path)
PathExists(path, checkpoints) ==
  path = LocalModel \/ \E c \in checkpoints : c.dir = path

\* ------------------------------------------------------------ model inputs
ModelTypes == {"bert", "albert", "xlnet", "xlm", "roberta", "distilbert",
               "camembert", "XLM", "RoBERTa"}

\* str.lower()
Lower(model_type) ==
  CASE model_type = "XLM" -> "xlm"
    [] model_type = "RoBERTa" -> "roberta"
    [] OTHER -> model_type

\* (mutation) token_type_ids is dropped for xlnet instead of xlm.
TrainInputs_WrongList(model_type, v2, has_lang2id) ==
  ({"input_ids", "attention_mask", "token_type_ids", "start_positions",
    "end_positions"}
     \ (IF model_type \in {"xlnet", "roberta", "distilbert", "camembert"}
        THEN {"token_type_ids"} ELSE {}))
  \cup (IF model_type \in {"xlnet", "xlm"}
        THEN {"cls_index", "p_mask"}
               \cup (IF v2 THEN {"is_impossible"} ELSE {})
               \cup (IF has_lang2id THEN {"langs"} ELSE {})
        ELSE {})

\* lines 194-212: the keywords of model(**inputs) in train()
TrainInputs(model_type, v2, has_lang2id) ==
  ({"input_ids", "attention_mask", "token_type_ids", "start_positions",
    "end_positions"}
     \ (IF model_type \in {"xlm", "roberta", "distilbert", "camembert"}
        THEN {"token_type_ids"} ELSE {}))
  \cup (IF model_type \in {"xlnet", "xlm"}
        THEN {"cls_index", "p_mask"}
               \cup (IF v2 THEN {"is_impossible"} ELSE {})
               \cup (IF has_lang2id THEN {"langs"} ELSE {})
        ELSE {})

\* lines 333-351: the keywords of model(**inputs) in evaluate()
EvalInputs(model_type, has_lang2id) ==
  ({"input_ids", "attention_mask", "token_type_ids"}
     \ (IF model_type \in {"xlm", "roberta", "distilbert", "camembert"}
        THEN {"token_type_ids"} ELSE {}))
  \cup (IF model_type \in {"xlnet", "xlm"}
        THEN {"cls_index", "p_mask"}
               \cup (IF has_lang2id THEN {"langs"} ELSE {})
        ELSE {})

\* ------------------------------------------------------------ main(): guard
\* (mutation) the guard forgets --overwrite_output_dir.
OutputDirGuard_IgnoresOverwrite(a, dir) ==
  IF dir = "absent" THEN "none"
  ELSE IF dir = "file" THEN "NotADirectoryError"
  ELSE IF dir = "nonempty" /\ a.do_train THEN "ValueError"
  ELSE "none"

\* lines 521-531: the exception of the guard on the output directory.
\* os.path.exists() is true of a regular file too, and os.listdir() of a
\* regular file raises NotADirectoryError.
OutputDirGuard(a, dir) ==
  IF dir = "absent" THEN "none"
  ELSE IF dir = "file" THEN "NotADirectoryError"
  ELSE IF dir = "nonempty" /\ a.do_train /\ ~a.overwrite_output_dir
       THEN "ValueError"
  ELSE "none"

\* lines 510-531
Guard ==
  /\ pc = "start"
  /\ UNCHANGED pvars
  /\ raised' = OutputDirGuard(args, fs_output_dir)
  /\ pc' = IF raised' = "none" THEN "setup" ELSE "exit"
  /\ UNCHANGED <<argv, args, len_train_dataloader, lang2id, fs_output_dir, ckpt,
                 invocation, model_loaded, barrier_entered, fs_written,
                 t_total, global_step, epochs_trained,
                 steps_trained_in_current_epoch, epoch, step, updates,
                 batches, skipped, train_inputs, eval_inputs, resumed_from>>

\* lines 656: evaluation is done by the first process only
WillEvaluate(a) == a.do_eval /\ a.local_rank \in {-1, 0}

\* lines 533-622: devices, logging, seed, model and tokenizer
LoadModel ==
  /\ pc = "setup"
  /\ UNCHANGED pvars
  /\ barrier_entered' = (barrier_entered \/ args.local_rank # -1)
  /\ args' = [args EXCEPT !.model_type = Lower(@)]
  /\ model_loaded' = TRUE
  /\ pc' = IF args.do_train THEN "load_data"
           ELSE IF WillEvaluate(args) THEN "eval" ELSE "exit"
  /\ UNCHANGED <<argv, len_train_dataloader, lang2id, fs_output_dir, ckpt,
                 invocation, raised, fs_written, t_total, global_step,
                 epochs_trained, steps_trained_in_current_epoch, epoch, step,
                 updates, batches, skipped, train_inputs, eval_inputs,
                 resumed_from>>

\* lines 626, 440-507: load_and_cache_examples(evaluate=False); the features
\* are written to the cache file by the first process when it is missing.
LoadData ==
  /\ pc = "load_data"
  /\ UNCHANGED pvars
  /\ \E cached \in BOOLEAN :
       fs_written' = (fs_written \/ (~cached /\ args.local_rank \in {-1, 0}))
  /\ barrier_entered' = (barrier_entered \/ args.local_rank # -1)
  /\ pc' = "train_setup"
  /\ UNCHANGED <<argv, args, len_train_dataloader, lang2id, fs_output_dir, ckpt,
                 invocation, raised, model_loaded, t_total, global_step,
                 epochs_trained, steps_trained_in_current_epoch, epoch, step,
                 updates, batches, skipped, train_inputs, eval_inputs,
                 resumed_from>>

\* ------------------------------------------------------------------ train()
\* len(train_dataloader) // args.gradient_accumulation_steps
UpdatesPerEpoch(L, G) == L \div G

\* lines 86-90: t_total
TotalSteps(a, L) ==
  IF a.max_steps > 0 THEN a.max_steps
  ELSE UpdatesPerEpoch(L, a.gradient_accumulation_steps) * a.num_train_epochs

\* lines 86-90: args.num_train_epochs
NumTrainEpochs(a, L) ==
  IF a.max_steps > 0
  THEN a.max_steps \div UpdatesPerEpoch(L, a.gradient_accumulation_steps) + 1
  ELSE a.num_train_epochs

\* lines 159-172: the checkpoint suffix of model_name_or_path is a number
Resuming(a, checkpoints) ==
  /\ PathExists(a.model_name_or_path, checkpoints)
  /\ IsInt(CheckpointSuffix(a.model_name_or_path))

\* lines 77-180: everything before the loop over the epochs
TrainSetup ==
  /\ pc = "train_setup"
  /\ UNCHANGED pvars
  /\ fs_written' = (fs_written \/ args.local_rank \in {-1, 0})  \* tb_writer
  /\ LET L == len_train_dataloader
         G == args.gradient_accumulation_steps
         U == UpdatesPerEpoch(L, G)
         resume == Resuming(args, ckpt)
         gs == IF resume THEN ParseInt(CheckpointSuffix(args.model_name_or_path))
               ELSE 1
     IN IF args.max_steps > 0 /\ U = 0        \* line 88
        THEN /\ raised' = "ZeroDivisionError"
             /\ pc' = "exit"
             /\ UNCHANGED <<args, t_total, global_step, epochs_trained,
                            steps_trained_in_current_epoch, epoch>>
        ELSE IF args.uncertainty_model       \* line 107
        THEN /\ raised' = "TypeError"
             /\ pc' = "exit"
             /\ args' = [args EXCEPT !.num_train_epochs = NumTrainEpochs(args, L)]
             /\ t_total' = TotalSteps(args, L)
             /\ UNCHANGED <<global_step, epochs_trained,
                            steps_trained_in_current_epoch, epoch>>
        ELSE IF resume /\ U = 0              \* line 164
        THEN /\ raised' = "ZeroDivisionError"
             /\ pc' = "exit"
             /\ args' = [args EXCEPT !.num_train_epochs = NumTrainEpochs(args, L)]
             /\ t_total' = TotalSteps(args, L)
             /\ global_step' = gs
             /\ UNCHANGED <<epochs_trained, steps_trained_in_current_epoch,
                            epoch>>
        ELSE /\ raised' = raised
             /\ args' = [args EXCEPT !.num_train_epochs = NumTrainEpochs(args, L)]
             /\ t_total' = TotalSteps(args, L)
             /\ global_step' = gs
             /\ epochs_trained' = IF resume THEN gs \div U ELSE 0
             /\ steps_trained_in_current_epoch' = IF resume THEN gs % U ELSE 0
             /\ epoch' = epochs_trained'
             /\ pc' = IF epochs_trained' < NumTrainEpochs(args, L)
                      THEN "train" ELSE "train_done"
  /\ step' = 0
  /\ UNCHANGED <<argv, len_train_dataloader, lang2id, fs_output_dir, ckpt,
                 invocation, model_loaded, barrier_entered, updates, batches,
                 skipped, train_inputs, eval_inputs, resumed_from>>

\* (mutation) the update is made on the first batch of each group.
IsUpdateStep_FirstOfGroup(stp, G) == stp % G = 0

\* line 252: the batch completes a group of gradient_accumulation_steps
IsUpdateStep(stp, G) == (stp + 1) % G = 0

\* lines 291, 294
PastMaxSteps(a, gs) == a.max_steps > 0 /\ gs > a.max_steps

\* the model of train() has its config attribute unless it is wrapped
\* (lines 136-139: DistributedDataParallel when local_rank != -1)
TrainHasLang2id(a, l2i) == l2i /\ a.local_rank = -1

\* lines 184-293: one batch of the epoch
TrainStep ==
  /\ pc = "train"
  /\ UNCHANGED pvars
  /\ step < len_train_dataloader
  /\ step' = step + 1
  /\ IF steps_trained_in_current_epoch > 0
     THEN /\ steps_trained_in_current_epoch' =
               steps_trained_in_current_epoch - 1
          /\ skipped' = skipped + 1
          /\ UNCHANGED <<pc, global_step, updates, batches, train_inputs,
                         eval_inputs, fs_output_dir, ckpt>>
     ELSE LET a == args
              upd == IsUpdateStep(step, a.gradient_accumulation_steps)
              gs == IF upd THEN global_step + 1 ELSE global_step
              log == /\ upd
                     /\ a.local_rank \in {-1, 0}
                     /\ a.logging_steps > 0
                     /\ gs % a.logging_steps = 0
              evl == log /\ a.local_rank = -1 /\ a.evaluate_during_training
              save == /\ upd
                      /\ a.local_rank \in {-1, 0}
                      /\ a.save_steps > 0
                      /\ gs % a.save_steps = 0
              dir == CheckpointDir(OutputDir, gs)
          IN /\ train_inputs' = TrainInputs(a.model_type,
                                            a.version_2_with_negative,
                                            TrainHasLang2id(a, lang2id))
             /\ batches' = batches + 1
             /\ updates' = IF upd THEN updates + 1 ELSE updates
             /\ global_step' = gs
             /\ eval_inputs' = IF evl THEN EvalInputs(a.model_type, lang2id)
                               ELSE eval_inputs
             /\ fs_output_dir' = IF evl \/ save THEN "nonempty"
                                 ELSE fs_output_dir
             /\ ckpt' = IF save
                        THEN {c \in ckpt : c.dir # dir}
                               \cup {[dir |-> dir, batches |-> batches',
                                      updates |-> updates']}
                        ELSE ckpt
             /\ pc' = IF PastMaxSteps(a, gs) THEN "train_done" ELSE "train"
             /\ UNCHANGED <<steps_trained_in_current_epoch, skipped>>
  /\ UNCHANGED <<argv, args, len_train_dataloader, lang2id, invocation, raised,
                 model_loaded, barrier_entered, fs_written, t_total,
                 epochs_trained, epoch, resumed_from>>

\* lines 182-183, 294-296: the epoch is exhausted
EpochEnd ==
  /\ pc = "train"
  /\ UNCHANGED pvars
  /\ step = len_train_dataloader
  /\ IF PastMaxSteps(args, global_step)
     THEN pc' = "train_done" /\ UNCHANGED <<epoch, step>>
     ELSE /\ epoch' = epoch + 1
          /\ step' = 0
          /\ pc' = IF epoch + 1 < args.num_train_epochs
                   THEN "train" ELSE "train_done"
  /\ UNCHANGED <<argv, args, len_train_dataloader, lang2id, fs_output_dir, ckpt,
                 invocation, raised, model_loaded, barrier_entered,
                 fs_written, t_total, global_step, epochs_trained,
                 steps_trained_in_current_epoch, updates, batches, skipped,
                 train_inputs, eval_inputs, resumed_from>>

\* lines 298-301, 628-652: train() returns, main() saves the trained model
FinishTrain ==
  /\ pc = "train_done"
  /\ UNCHANGED pvars
  /\ fs_output_dir' = IF args.local_rank \in {-1, 0} THEN "nonempty"
                      ELSE fs_output_dir
  /\ fs_written' = (fs_written \/ args.local_rank \in {-1, 0})
  /\ pc' = IF WillEvaluate(args) THEN "eval" ELSE "exit"
  /\ UNCHANGED <<argv, args, len_train_dataloader, lang2id, ckpt, invocation,
                 raised, model_loaded, barrier_entered, t_total,
                 global_step, epochs_trained, steps_trained_in_current_epoch,
                 epoch, step, updates, batches, skipped, train_inputs,
                 eval_inputs, resumed_from>>

\* lines 654-686, 304-437: the checkpoints are evaluated
Evaluate ==
  /\ pc = "eval"
  /\ UNCHANGED pvars
  /\ eval_inputs' = EvalInputs(args.model_type, lang2id)
  /\ fs_output_dir' = "nonempty"             \* lines 307-308, 390-394
  /\ fs_written' = TRUE
  /\ pc' = "exit"
  /\ UNCHANGED <<argv, args, len_train_dataloader, lang2id, ckpt, invocation,
                 raised, model_loaded, barrier_entered, t_total, global_step,
                 epochs_trained, steps_trained_in_current_epoch, epoch, step,
                 updates, batches, skipped, train_inputs, resumed_from>>

\* The script is started again, with the same data and settings, on one of
\* the checkpoint-N directories the first run has written; the first run may
\* have ended or may be killed at this point.
Restart ==
  /\ invocation = 1
  /\ UNCHANGED pvars
  /\ \E c \in ckpt, ow \in BOOLEAN :
       /\ argv' = [argv EXCEPT !.model_name_or_path = c.dir,
                               !.overwrite_output_dir = ow]
       /\ args' = argv'
       /\ resumed_from' = c
  /\ invocation' = 2
  /\ pc' = "start"
  /\ raised' = "none"
  /\ model_loaded' = FALSE
  /\ barrier_entered' = FALSE
  /\ fs_written' = FALSE
  /\ t_total' = 0
  /\ global_step' = 1
  /\ epochs_trained' = 0
  /\ steps_trained_in_current_epoch' = 0
  /\ epoch' = 0
  /\ step' = 0
  /\ updates' = 0
  /\ batches' = 0
  /\ skipped' = 0
  /\ train_inputs' = {}
  /\ eval_inputs' = {}
  /\ UNCHANGED <<len_train_dataloader, lang2id, fs_output_dir, ckpt>>

SNext ==
  \/ Guard
  \/ LoadModel
  \/ LoadData
  \/ TrainSetup
  \/ TrainStep
  \/ EpochEnd
  \/ FinishTrain
  \/ Evaluate
  \/ Restart

\* ---------------------------------------------------------- specifications
\* preprocess.py is about to read its first line.
PInit ==
  /\ max_len \in -1..MaxMaxLen
  /\ subword_len_counter = 0
  /\ consumed = <<>>
  /\ out = <<>>
  /\ ppc = "reading"

\* line 14: the next line of the file is read and processed.
ProcessLine ==
  /\ ppc = "reading"
  /\ UNCHANGED svars
  /\ Len(consumed) < MaxLines
  /\ \E rawline \in Lines :
       LET r == LoopBody(rawline, subword_len_counter, out, max_len) IN
       /\ consumed' = Append(consumed, rawline)
       /\ out' = r.out
       /\ subword_len_counter' = r.counter
  /\ UNCHANGED <<max_len, ppc>>

\* line 13-14: the file is exhausted.
EndOfFile ==
  /\ ppc = "reading"
  /\ UNCHANGED svars
  /\ ppc' = "eof"
  /\ UNCHANGED <<max_len, subword_len_counter, consumed, out>>

\* The command lines of a family of runs: one set of values per option.
ArgsOf(D) ==
  [ do_train : D.do_train,
    do_eval : D.do_eval,
    overwrite_output_dir : D.overwrite_output_dir,
    local_rank : D.local_rank,
    model_type : D.model_type,
    version_2_with_negative : D.version_2_with_negative,
    max_steps : D.max_steps,
    num_train_epochs : D.num_train_epochs,
    gradient_accumulation_steps : D.gradient_accumulation_steps,
    save_steps : D.save_steps,
    logging_steps : D.logging_steps,
    evaluate_during_training : D.evaluate_during_training,
    model_name_or_path : D.model_name_or_path,
    uncertainty_model : D.uncertainty_model ]

\* main() is about to run for the first time.
SInit(D, Ls, l2is, dirs) ==
  /\ argv \in ArgsOf(D)
  /\ args = argv
  /\ len_train_dataloader \in Ls
  /\ lang2id \in l2is
  /\ fs_output_dir \in dirs
  /\ ckpt = {}
  /\ invocation = 1
  /\ pc = "start"
  /\ raised = "none"
  /\ model_loaded = FALSE
  /\ barrier_entered = FALSE
  /\ fs_written = FALSE
  /\ t_total = 0
  /\ global_step = 1
  /\ epochs_trained = 0
  /\ steps_trained_in_current_epoch = 0
  /\ epoch = 0
  /\ step = 0
  /\ updates = 0
  /\ batches = 0
  /\ skipped = 0
  /\ train_inputs = {}
  /\ eval_inputs = {}
  /\ resumed_from = [dir |-> <<>>, batches |-> 0, updates |-> 0]

\* preprocess.py is not running.
PIdle ==
  /\ max_len = 0
  /\ subword_len_counter = 0
  /\ consumed = <<>>
  /\ out = <<>>
  /\ ppc = "eof"

DirStates == {"absent", "empty", "nonempty", "file"}

\* Runs that differ in what the guard of main() looks at.
GuardRuns ==
  [ do_train |-> BOOLEAN, do_eval |-> BOOLEAN,
    overwrite_output_dir |-> BOOLEAN, local_rank |-> {-1, 0, 1},
    model_type |-> {"bert"}, version_2_with_negative |-> {FALSE},
    max_steps |-> {-1, MaxMaxSteps}, num_train_epochs |-> {1},
    gradient_accumulation_steps |-> {1}, save_steps |-> {0, 1},
    logging_steps |-> {0}, evaluate_during_training |-> {FALSE},
    model_name_or_path |-> {HubModel}, uncertainty_model |-> BOOLEAN ]

\* Runs that differ in the schedule of the training loop.
TrainRuns ==
  [ do_train |-> {TRUE}, do_eval |-> BOOLEAN,
    overwrite_output_dir |-> {FALSE}, local_rank |-> {-1},
    model_type |-> {"bert"}, version_2_with_negative |-> {FALSE},
    max_steps |-> -1..MaxMaxSteps, num_train_epochs |-> 1..MaxEpochs,
    gradient_accumulation_steps |-> 1..MaxAccum,
    save_steps |-> 0..MaxSaveSteps,
    logging_steps |-> {0, 2}, evaluate_during_training |-> {TRUE},
    model_name_or_path |-> {HubModel, LocalModel},
    uncertainty_model |-> {FALSE} ]

\* Runs that differ in the model and in who calls it.
InputRuns ==
  [ do_train |-> BOOLEAN, do_eval |-> BOOLEAN,
    overwrite_output_dir |-> {TRUE}, local_rank |-> {-1, 0, 1},
    model_type |-> ModelTypes, version_2_with_negative |-> BOOLEAN,
    max_steps |-> {-1}, num_train_epochs |-> {1},
    gradient_accumulation_steps |-> {1}, save_steps |-> {0, 2},
    logging_steps |-> {0, 1}, evaluate_during_training |-> BOOLEAN,
    model_name_or_path |-> {LocalModel}, uncertainty_model |-> {FALSE} ]

PNext ==
  \/ ProcessLine
  \/ EndOfFile

\* run_squad.py is not running.
SIdle ==
  /\ SInit(GuardRuns, {1}, {FALSE}, {"absent"})
  /\ argv = CHOOSE a \in ArgsOf(GuardRuns) : TRUE

\* preprocess.py alone
InitPre == PInit /\ SIdle
SpecPre == InitPre /\ [][PNext]_vars

\* run_squad.py: the guard of main()
InitGuard == PIdle /\ SInit(GuardRuns, {2}, {FALSE}, DirStates)
SpecGuard == InitGuard /\ [][SNext]_vars

\* run_squad.py: the training loop
InitTrain ==
  PIdle /\ SInit(TrainRuns, 1..MaxBatches, {FALSE}, {"absent", "nonempty"})
SpecTrain == InitTrain /\ [][SNext]_vars

\* run_squad.py: the keywords given to the model
InitInputs == PIdle /\ SInit(InputRuns, {2}, BOOLEAN, {"absent"})
SpecInputs == InitInputs /\ [][SNext]_vars

\* ------------------------------------------------- claims on preprocess.py
IsBlank(line) == Rstrip(line) = <<>>
FirstField(line) == Split(Rstrip(line))[1]
LastField(line) == Split(Rstrip(line))[Len(Split(Rstrip(line)))]
HasSubwords(line) == ~IsBlank(line) /\ Tokenize(FirstField(line)) >= 1
NotEmptyLine(l) == l # <<>>

\* The non-blank lines of the output.
OutTokens == SelectSeq(out, NotEmptyLine)

\* The (first field, last field) pairs of the input lines that are kept.
KeptPairs ==
  LET kept == SelectSeq(consumed, HasSubwords)
  IN [i \in 1..Len(kept) |-> <<FirstField(kept[i]), SP, LastField(kept[i])>>]

\* C1: the output without its blank lines is exactly the sequence of
\* (first field, last field) pairs of the non-blank input lines whose token
\* has at least one subword, in input order, one output line per input line:
\* no token is lost, duplicated or reordered.
C1_NoLossNoDupNoReorder == OutTokens = KeptPairs

\* C1 witness: a whole file was processed in which a token without subwords
\* was filtered out and an example was split by an inserted blank line.
C1_Witness ==
  /\ ppc = "eof"
  /\ max_len >= 2
  /\ Len(OutTokens) >= 2
  /\ Len(OutTokens) < Len(SelectSeq(consumed, LAMBDA l : ~IsBlank(l)))
  /\ Len(SelectSeq(out, LAMBDA l : l = <<>>))
       > Len(SelectSeq(consumed, IsBlank))

\* Every example (a maximal run of consecutive non-blank lines) of the
\* output o has a total subword count of at most ml; run is the count of the
\* example under way.
RECURSIVE ExamplesWithin(_, _, _)
ExamplesWithin(o, run, ml) ==
  IF o = <<>> THEN TRUE
  ELSE IF Head(o) = <<>> THEN ExamplesWithin(Tail(o), 0, ml)
  ELSE /\ run + Tokenize(Head(o)[1]) <= ml
       /\ ExamplesWithin(Tail(o), run + Tokenize(Head(o)[1]), ml)

EveryTokenFits ==
  \A i \in 1..Len(consumed) :
    ~IsBlank(consumed[i]) => Tokenize(FirstField(consumed[i])) <= max_len

\* C5: when every single token has at most max_len subwords, every example
\* of the output has a total subword count of at most max_len.
C5_ExamplesWithinMaxLen ==
  EveryTokenFits => ExamplesWithin(out, 0, max_len)

\* C7: for max_len >= 0 the counter stays within 0..max_len after every
\* processed line; a blank input line is echoed as exactly one blank output
\* line and leaves the counter at 0, and the token that follows a blank line
\* is charged against a fresh budget (no blank line is inserted before it).
C7_Step ==
  consumed' # consumed =>
    LET line == consumed'[Len(consumed')] IN
    /\ max_len >= 0 =>
         (0 <= subword_len_counter' /\ subword_len_counter' <= max_len)
    /\ IsBlank(line) =>
         (out' = Append(out, <<>>) /\ subword_len_counter' = 0)
    /\ ( /\ consumed # <<>>
         /\ IsBlank(consumed[Len(consumed)])
         /\ HasSubwords(line)
         /\ Tokenize(FirstField(line)) <= max_len )
       => ( /\ out' = Append(out, <<FirstField(line), SP, LastField(line)>>)
            /\ subword_len_counter' = Tokenize(FirstField(line)) )
C7_CounterBoundedAndReset == [][C7_Step]_vars

\* C7 witness: a blank line ended an example that had consumed budget, and
\* the next example took a token that would not have fit into the old one.
C7_Witness ==
  /\ max_len >= 0
  /\ Len(consumed) >= 3
  /\ ~IsBlank(consumed[Len(consumed) - 2])
  /\ IsBlank(consumed[Len(consumed) - 1])
  /\ HasSubwords(consumed[Len(consumed)])
  /\ Tokenize(FirstField(consumed[Len(consumed) - 2]))
       + Tokenize(FirstField(consumed[Len(consumed)])) > max_len
  /\ subword_len_counter = Tokenize(FirstField(consumed[Len(consumed)]))
  /\ subword_len_counter > 0

\* ------------------------------------------------- claims on run_squad.py
\* The condition of lines 521-526 as the claim words it.
GuardCondition ==
  /\ fs_output_dir = "nonempty"
  /\ args.do_train
  /\ ~args.overwrite_output_dir

\* The step of the guard has loaded no model, entered no barrier and has
\* created or written nothing.
NothingDoneYet ==
  /\ ~model_loaded' /\ ~barrier_entered' /\ ~fs_written'
  /\ fs_output_dir' = fs_output_dir
  /\ ckpt' = ckpt

GuardStep == pc = "start" /\ pc' # "start"

\* C2 as stated: main() raises ValueError whenever output_dir exists, is
\* non-empty, do_train is set and overwrite_output_dir is not set, before any
\* model is loaded, any barrier is entered and anything is written; in every
\* other case the guard does not raise.
C2_Original_Step ==
  GuardStep =>
    IF GuardCondition THEN raised' = "ValueError" /\ NothingDoneYet
    ELSE raised' = "none"
C2_GuardRaisesOnlyValueError == [][C2_Original_Step]_vars

\* C2 amended: as stated, except that in every other case the guard raises no
\* ValueError, and raises nothing at all unless os.listdir() itself fails:
\* NotADirectoryError when output_dir exists and is not a directory.
C2_Amended_Step ==
  GuardStep =>
    IF GuardCondition THEN raised' = "ValueError" /\ NothingDoneYet
    ELSE /\ raised' # "ValueError"
         /\ raised' # "none" =>
              (fs_output_dir = "file" /\ raised' = "NotADirectoryError")
         /\ fs_output_dir = "file" => (raised' # "none" /\ NothingDoneYet)
C2_GuardRaisesValueErrorIff == [][C2_Amended_Step]_vars

\* C2 witness: the guard has stopped a training run on a non-empty output
\* directory, and nothing was loaded or written.
C2_Witness ==
  /\ pc = "exit"
  /\ raised = "ValueError"
  /\ fs_output_dir = "nonempty"
  /\ args.do_train /\ ~args.overwrite_output_dir
  /\ ~model_loaded /\ ~barrier_entered /\ ~fs_written

\* No checkpoint to resume from: lines 163-165 are not executed.
FreshStart == ~Resuming(args, ckpt)

\* The number of updates of an uninterrupted run, as the claim gives it.
ExpectedUpdates ==
  IF argv.max_steps > 0 THEN argv.max_steps
  ELSE (len_train_dataloader \div argv.gradient_accumulation_steps)
         * argv.num_train_epochs

\* C3: on a fresh start with len(train_dataloader) >=
\* gradient_accumulation_steps, when train() leaves its loop the number of
\* optimizer.step() calls equals t_total, which is max_steps when
\* max_steps > 0 and (len(train_dataloader) // gradient_accumulation_steps)
\* * num_train_epochs otherwise; and with max_steps > 0 no update is made
\* once global_step > max_steps.
C3_Step ==
  (FreshStart /\ len_train_dataloader >= args.gradient_accumulation_steps) =>
    /\ pc = "train_done" =>
         (updates = t_total /\ t_total = ExpectedUpdates)
    /\ ( /\ args.max_steps > 0
         /\ global_step > args.max_steps
         /\ invocation' = invocation ) => updates' = updates
C4_InputsDecidedByModelType ==
  LET mt == args.model_type
      noTokenTypes == mt \in {"xlm", "roberta", "distilbert", "camembert"}
      extra == mt \in {"xlnet", "xlm"}
  IN /\ train_inputs # {} =>
          /\ ("token_type_ids" \in train_inputs) <=> ~noTokenTypes
          /\ ("cls_index" \in train_inputs) <=> extra
          /\ ("p_mask" \in train_inputs) <=> extra
          /\ ("is_impossible" \in train_inputs) =>
               (extra /\ args.version_2_with_negative)
     /\ eval_inputs # {} =>
          /\ ("token_type_ids" \in eval_inputs) <=> ~noTokenTypes
          /\ ("cls_index" \in eval_inputs) <=> extra
          /\ ("p_mask" \in eval_inputs) <=> extra
          /\ "is_impossible" \notin eval_inputs

\* C4 witness: an XLM model given as "XLM" on SQuAD 2.0 was called by
\* train() and by evaluate(), and train() gave it is_impossible.
C4_Witness ==
  /\ argv.model_type = "XLM"
  /\ args.version_2_with_negative
  /\ "is_impossible" \in train_inputs
  /\ "token_type_ids" \notin train_inputs
  /\ "cls_index" \in eval_inputs
  /\ pc = "exit"

\* C6: when train() resumes from a checkpoint-N written by an earlier run
\* with the same data and settings, the number of batches it skips equals the
\* number of batches the earlier run had processed when it wrote
\* checkpoint-N, and the updates of the earlier run up to checkpoint-N plus
\* the updates of the resumed run equal the updates of an uninterrupted run.
\* The batches a resumed run passes over: epochs_trained whole epochs and the
\* leading batches of the first resumed epoch (those already skipped and
\* those still to skip).
BatchesSkipped ==
  epochs_trained * len_train_dataloader
    + skipped + steps_trained_in_current_epoch

C6_ResumeSkipsExactlyTrained ==
  (invocation = 2 /\ pc = "train_done" /\ raised = "none") =>
    /\ BatchesSkipped = resumed_from.batches
    /\ resumed_from.updates + updates = ExpectedUpdates
====
